---- MODULE Spec2Model ----
(***************************************************************************)
(* A model of src/create_plot.py: the pipeline that scrapes the table of   *)
(* same-sex marriage legalisations, cleans it, resolves ISO-3 codes and    *)
(* plots a choropleth.                                                     *)
(*                                                                         *)
(* A Python str is modelled as a sequence of one-character strings, so     *)
(* that splitting, stripping, replacing, parsing and comparing are         *)
(* computed character by character as the library routines compute them.   *)
(***************************************************************************)
EXTENDS Integers, Sequences, FiniteSets, TLC

VARIABLES
    pc,                       \* position of the running program
    parts,                    \* the pieces the parser's argument is written from
    string_val,               \* argument of get_countries_from_string
    cleaned_string_list,      \* its return value
    response,                 \* requests.Response held by load_same_sex_marriage_data
    same_sex_df,              \* main()'s data frame: a sequence of rows
    unmatched_countries_str,  \* the list logged at DEBUG by add_iso_code_to_data
    shown,                    \* the figure fig.show() displayed
    error,                    \* the exception that ended main(), if any
    requests_made,            \* number of HTTP GETs sent
    ran                       \* the stages entered so far, in order

vars == <<pc, parts, string_val, cleaned_string_list, response, same_sex_df,
          unmatched_countries_str, shown, error, requests_made, ran>>

(***************************************************************************)
(* Bounds of the model.                                                    *)
(***************************************************************************)
\* longest argument of the parser, in pieces
MaxPieces == 4
\* longest country name of an "A (x) B (y)" argument, in pieces
MaxNamePieces == 2
\* most rows of the scraped table
MaxRows == 2

(***************************************************************************)
(* Characters and strings.                                                 *)
(***************************************************************************)
\* Printable ASCII in code-point order, in two runs: 32 (space) to 95 (_) and
\* 97 (a) to 126 (~).  Code point 96, the grave accent, cannot be written in a
\* string of this language and is left out.
AsciiLow ==
    << " ", "!", "\"", "#", "$", "%", "&", "'", "(", ")", "*", "+", ",", "-", ".", "/",
       "0", "1", "2", "3", "4", "5", "6", "7", "8", "9", ":", ";", "<", "=", ">", "?",
       "@", "A", "B", "C", "D", "E", "F", "G", "H", "I", "J", "K", "L", "M", "N", "O",
       "P", "Q", "R", "S", "T", "U", "V", "W", "X", "Y", "Z", "[", "\\", "]", "^", "_" >>

AsciiHigh ==
    << "a", "b", "c", "d", "e", "f", "g", "h", "i", "j", "k", "l", "m", "n", "o",
       "p", "q", "r", "s", "t", "u", "v", "w", "x", "y", "z", "{", "|", "}", "~" >>

\* The whitespace characters of code point below 256, each with its code
\* point: tab, line feed, vertical tab, form feed, carriage return, the file,
\* group, record and unit separators, space, next line, no-break space.
Spaces ==
    << <<"\t", 9>>, <<"\n", 10>>, <<"", 11>>, <<"\f", 12>>, <<"\r", 13>>,
       <<"", 28>>, <<"", 29>>, <<"", 30>>, <<"", 31>>, <<" ", 32>>,
       <<"", 133>>, <<" ", 160>> >>

\* ord(c): the code point of a character.
ord(c) ==
    IF \E i \in 1..Len(Spaces) : Spaces[i][1] = c
    THEN Spaces[CHOOSE i \in 1..Len(Spaces) : Spaces[i][1] = c][2]
    ELSE IF \E i \in 1..Len(AsciiLow) : AsciiLow[i] = c
         THEN 31 + (CHOOSE i \in 1..Len(AsciiLow) : AsciiLow[i] = c)
         ELSE 96 + (CHOOSE i \in 1..Len(AsciiHigh) : AsciiHigh[i] = c)

\* chr(n) for the lower-case letters.
chr(n) == AsciiHigh[n - 96]

\* The characters str.strip() removes and the regex class \s matches (those
\* str.isspace() holds of).  The ones of code point 256 and above (U+1680,
\* U+2000 to U+200A, U+2028, U+2029, U+202F, U+205F, U+3000) cannot be written
\* in a string of this language and are left out.
Whitespace == {Spaces[i][1] : i \in 1..Len(Spaces)}

Ascii09 == <<"0", "1", "2", "3", "4", "5", "6", "7", "8", "9">>

Digits == {Ascii09[i] : i \in 1..10}

\* str.lower() on one character.
UpperCase == {AsciiLow[i] : i \in 34..59}
lower_char(c) == IF c \in UpperCase THEN chr(ord(c) + 32) ELSE c

\* str.lower()
lower(s) == [i \in 1..Len(s) |-> lower_char(s[i])]

RECURSIVE lstrip(_)
lstrip(s) == IF s # <<>> /\ Head(s) \in Whitespace THEN lstrip(Tail(s)) ELSE s

RECURSIVE rstrip(_)
rstrip(s) ==
    IF s # <<>> /\ s[Len(s)] \in Whitespace THEN rstrip(SubSeq(s, 1, Len(s) - 1)) ELSE s

\* str.strip()
strip(s) == rstrip(lstrip(s))

startswith(s, prefix) ==
    Len(s) >= Len(prefix) /\ SubSeq(s, 1, Len(prefix)) = prefix

\* str.replace(old, new) for a non-empty old: one pass, left to right, over the
\* non-overlapping occurrences.
RECURSIVE replace(_, _, _)
replace(s, old, new) ==
    IF s = <<>> THEN <<>>
    ELSE IF startswith(s, old)
         THEN new \o replace(SubSeq(s, Len(old) + 1, Len(s)), old, new)
         ELSE <<Head(s)>> \o replace(Tail(s), old, new)

\* s < t for Python strings: lexicographic by code point.
RECURSIVE str_lt(_, _)
str_lt(s, t) ==
    IF t = <<>> THEN FALSE
    ELSE IF s = <<>> THEN TRUE
    ELSE IF Head(s) = Head(t) THEN str_lt(Tail(s), Tail(t))
    ELSE ord(Head(s)) < ord(Head(t))

\* The concatenation of a sequence of strings.
RECURSIVE Flatten(_)
Flatten(ss) == IF ss = <<>> THEN <<>> ELSE Head(ss) \o Flatten(Tail(ss))

\* All sequences over S of length at most n.
SeqsUpTo(S, n) == UNION {[1..k -> S] : k \in 0..n}

(***************************************************************************)
(* get_countries_from_string                                               *)
(***************************************************************************)
Nationwide == <<"[", "n", "a", "t", "i", "o", "n", "w", "i", "d", "e", "]">>

\* The positions of ")" at or after position from.
ClosingAfter(s, from) == {j \in from..Len(s) : s[j] = ")"}

\* A greedy group, \s\(.*\): the match runs to the last ")" of the line.
match_end_greedy(s, i) ==
    IF i + 1 > Len(s) THEN 0
    ELSE IF ~(s[i] \in Whitespace /\ s[i + 1] = "(") THEN 0
    ELSE LET ok == {j \in ClosingAfter(s, i + 2) :
                       \A k \in (i + 2)..(j - 1) : s[k] # "\n"}
         IN IF ok = {} THEN 0 ELSE CHOOSE j \in ok : \A k \in ok : k <= j

\* The regular expression \s\(.*?\) tried at position i of s: the position of
\* the last character of the match, or 0 when there is no match at i.  The
\* group is lazy, so it ends at the first ")" after the "(", and "." matches
\* no newline.
match_end(s, i) ==
    IF i + 1 > Len(s) THEN 0
    ELSE IF ~(s[i] \in Whitespace /\ s[i + 1] = "(") THEN 0
    ELSE LET closing == ClosingAfter(s, i + 2)
         IN IF closing = {} THEN 0
            ELSE LET j == CHOOSE j \in closing : \A k \in closing : j <= k
                 IN IF \A k \in (i + 2)..(j - 1) : s[k] # "\n" THEN j ELSE 0

\* re.split scanning s from position i, the current fragment starting at start.
RECURSIVE split_from(_, _, _)
split_from(s, start, i) ==
    IF i > Len(s) THEN <<SubSeq(s, start, Len(s))>>
    ELSE LET e == match_end(s, i)
         IN IF e > 0
            THEN <<SubSeq(s, start, i - 1)>> \o split_from(s, e + 1, e + 1)
            ELSE split_from(s, start, i + 1)

\* re.split(pattern=r'\s\(.*?\)', string=s)
re_split(s) == split_from(s, 1, 1)

get_countries_from_string(s) ==
    LET string_list == re_split(s)
        kept == SelectSeq(string_list, LAMBDA string : strip(string) # <<>>)
    IN [k \in 1..Len(kept) |-> strip(replace(kept[k], Nationwide, <<>>))]

(***************************************************************************)
(* The strings the model runs on.                                          *)
(***************************************************************************)
Spain == <<"S", "p", "a", "i", "n">>
Portugal == <<"P", "o", "r", "t", "u", "g", "a", "l">>
Taiwan == <<"T", "a", "i", "w", "a", "n">>
TaiwanProvinceOfChina ==
    Taiwan \o <<",", " ", "P", "r", "o", "v", "i", "n", "c", "e", " ", "o", "f", " ",
                "C", "h", "i", "n", "a">>
EnglandAndWales ==
    <<"E", "n", "g", "l", "a", "n", "d", " ", "a", "n", "d", " ", "W", "a", "l", "e", "s">>
UnitedKingdom ==
    <<"U", "n", "i", "t", "e", "d", " ", "K", "i", "n", "g", "d", "o", "m">>
Scotland == <<"S", "c", "o", "t", "l", "a", "n", "d">>
Hawaii == <<"H", "a", "w", "a", "i", "i">>
Pending == <<"P", "e", "n", "d", "i", "n", "g">>
pending == <<"p", "e", "n", "d", "i", "n", "g">>
Y2005 == <<"2", "0", "0", "5">>
Y2010 == <<"2", "0", "1", "0">>
Y2014 == <<"2", "0", "1", "4">>
Y12 == <<"1", "2">>
Sp == <<" ">>
Annotated(name, note) == name \o <<" ", "(">> \o note \o <<")">>

\* What the parser's argument is written from.
Pieces ==
    {Spain, Sp, Nationwide, Annotated(<<>>, Y2005), <<"(">>, <<")">>, <<"\n">>, <<"">>}

\* Country names: non-blank, without parentheses.
NamePieces == {Spain, Sp, Nationwide}
IsBlank(s) == strip(s) = <<>>
Names == {n \in {Flatten(ps) : ps \in SeqsUpTo(NamePieces, MaxNamePieces)} : ~IsBlank(n)}

\* Annotations: any text without ")" and without a newline.
Annotations == {<<>>, Y2005, <<"1", " ", "(", "a">>}

\* The pieces of "A (x) B (y)".
Form(A, x, B, y) == <<A, <<" ", "(">>, x, <<")">>, Sp, B, <<" ", "(">>, y, <<")">>>>
IsForm(ps) ==
    /\ Len(ps) = 9
    /\ ps[1] \in Names /\ ps[6] \in Names
    /\ ps[3] \in Annotations /\ ps[8] \in Annotations
    /\ ps = Form(ps[1], ps[3], ps[6], ps[8])

ParserInputs ==
    SeqsUpTo(Pieces, MaxPieces)
        \cup {Form(A, x, B, y) : A \in Names, x \in Annotations, B \in Names, y \in Annotations}

(***************************************************************************)
(* Values of the data frame.                                               *)
(***************************************************************************)
\* A missing value (NaN, None): no string is a sequence holding a longer string.
NaN == <<"NaN">>
isnull(v) == v = NaN

NoResponse == [status_code |-> 0, text |-> [wikitable |-> FALSE, ncols |-> 0, rows |-> <<>>]]

\* No figure displayed.
NotShown == [displayed |-> FALSE, data |-> <<>>]

\* The variables of a program that has not run main().
Idle ==
    /\ response = NoResponse
    /\ same_sex_df = <<>>
    /\ unmatched_countries_str = <<>>
    /\ shown = NotShown
    /\ error = "none"
    /\ requests_made = 0
    /\ ran = <<>>

(***************************************************************************)
(* load_same_sex_marriage_data                                             *)
(***************************************************************************)
\* The rows a scraped table is made of: a period and the text of the countries.
TwoKnown == Annotated(Spain, Y2005) \o Sp \o Annotated(Portugal, Y2010)
Aliased == Annotated(EnglandAndWales \o Nationwide, Y2014)
TagOnly == Annotated(Nationwide, Y2014)
TwoUnknown == Annotated(Scotland, Y2014) \o Sp \o Annotated(Hawaii, Y2010)

RawRecords ==
    [year : {Y2005, Y12, Pending, pending},
     country : {TwoKnown, Aliased, TagOnly, TwoUnknown}]
        \cup {[year |-> NaN, country |-> TwoKnown], [year |-> <<>>, country |-> TwoKnown],
              [year |-> Y2005 \o <<"">>, country |-> TwoKnown],
              [year |-> Y2005, country |-> NaN], [year |-> Y2005, country |-> <<>>]}

Tables == SeqsUpTo(RawRecords, MaxRows)

\* The pages the server may answer with: no wikitable, a wikitable of three
\* columns, a wikitable of the two columns the program expects.
Bodies ==
    {[wikitable |-> FALSE, ncols |-> 0, rows |-> <<>>],
     [wikitable |-> TRUE, ncols |-> 3, rows |-> <<>>]}
        \cup {[wikitable |-> TRUE, ncols |-> 2, rows |-> t] : t \in Tables}

StatusCodes == {200, 404}

\* pd.DataFrame(raw_html[0]) with columns ['year', 'country']; index is the
\* frame's RangeIndex.
DataFrame(rows) ==
    [i \in 1..Len(rows) |->
        [index |-> i - 1, year |-> rows[i].year, country |-> rows[i].country]]

(***************************************************************************)
(* clean_same_sex_marriage_data                                            *)
(***************************************************************************)
\* DataFrame.dropna(axis=0) on a frame of the columns year and country.
dropna(df) == SelectSeq(df, LAMBDA r : ~isnull(r.year) /\ ~isnull(r.country))

\* same_sex_df['country'].map(get_countries_from_string)
map_countries(df) ==
    [i \in 1..Len(df) |-> [df[i] EXCEPT !.country = get_countries_from_string(@)]]

\* A row kept as one row, of its first token.
explode_first(r) ==
    IF r.country = <<>> THEN <<[r EXCEPT !.country = NaN]>>
    ELSE <<[r EXCEPT !.country = r.country[1]]>>

\* The rows one row explodes to: one per token; a row of an empty list gives
\* one row whose country is NaN.
explode_row(r) ==
    IF r.country = <<>> THEN <<[r EXCEPT !.country = NaN]>>
    ELSE [k \in 1..Len(r.country) |-> [r EXCEPT !.country = r.country[k]]]

\* DataFrame.explode('country').reset_index(): the old index becomes the
\* column index.
explode(df) == Flatten([i \in 1..Len(df) |-> explode_row(df[i])])

\* Series.replace({'England and Wales': 'United Kingdom',
\*                 'Taiwan': 'Taiwan, Province of China'}) on one value.
replace_country(c) ==
    IF c = EnglandAndWales THEN UnitedKingdom
    ELSE IF c = Taiwan THEN TaiwanProvinceOfChina
    ELSE c

rename_countries(df) ==
    [i \in 1..Len(df) |-> [df[i] EXCEPT !.country = replace_country(@)]]

\* A filter that keeps every row.
keep_all(df) == df

\* same_sex_df.loc[same_sex_df['year'] != 'Pending']
drop_pending(df) == SelectSeq(df, LAMBDA r : r.year # Pending)

\* int(str): optional whitespace around an optional sign and decimal digits,
\* which single underscores may separate.
\* The characters int() skips around a literal: the whitespace characters but
\* the four separators of code points 28 to 31, which str.strip() removes and
\* int() rejects.
IntSpaces == {Spaces[i][1] : i \in {k \in 1..Len(Spaces) : ~(Spaces[k][2] \in 28..31)}}

RECURSIVE int_lstrip(_)
int_lstrip(s) == IF s # <<>> /\ Head(s) \in IntSpaces THEN int_lstrip(Tail(s)) ELSE s

RECURSIVE int_rstrip(_)
int_rstrip(s) ==
    IF s # <<>> /\ s[Len(s)] \in IntSpaces THEN int_rstrip(SubSeq(s, 1, Len(s) - 1)) ELSE s

\* The text int() reads once the blanks around it are skipped.
int_strip(s) == int_rstrip(int_lstrip(s))

int_body(s) ==
    LET t == int_strip(s)
    IN IF t # <<>> /\ Head(t) \in {"+", "-"} THEN Tail(t) ELSE t

is_int_literal(s) ==
    LET b == int_body(s)
    IN /\ b # <<>>
       /\ b[1] \in Digits /\ b[Len(b)] \in Digits
       /\ \A i \in 1..Len(b) : b[i] \in Digits \cup {"_"}
       /\ \A i \in 1..(Len(b) - 1) : ~(b[i] = "_" /\ b[i + 1] = "_")

digit_value(c) == ord(c) - 48

\* The digits summed: each digit added without shifting the digits before it.
RECURSIVE digits_sum(_, _)
digits_sum(b, acc) ==
    IF b = <<>> THEN acc
    ELSE IF Head(b) = "_" THEN digits_sum(Tail(b), acc)
    ELSE digits_sum(Tail(b), acc + digit_value(Head(b)))

RECURSIVE digits_value(_, _)
digits_value(b, acc) ==
    IF b = <<>> THEN acc
    ELSE IF Head(b) = "_" THEN digits_value(Tail(b), acc)
    ELSE digits_value(Tail(b), 10 * acc + digit_value(Head(b)))

\* int(s) for an s that is_int_literal.
int(s) ==
    LET t == int_strip(s)
        v == digits_value(int_body(s), 0)
    IN IF Head(t) = "-" THEN 0 - v ELSE v

\* A conversion that leaves out the rows it cannot convert (errors coerced to
\* NaN and dropped) instead of raising.
clean_coercing(df) ==
    LET mapped == map_countries(dropna(df))
        exploded == dropna(explode(mapped))
        filtered == SelectSeq(drop_pending(rename_countries(exploded)),
                              LAMBDA r : is_int_literal(r.year))
    IN [raised |-> FALSE,
        argument |-> mapped,
        value |-> [i \in 1..Len(filtered) |-> [filtered[i] EXCEPT !.year = int(@)]]]

\* clean_same_sex_marriage_data(df): whether it raised (astype(int) raises
\* ValueError), the frame passed in as the call leaves it (dropna and the
\* assignment of the column act on it in place), and the frame returned.
clean_same_sex_marriage_data(df) ==
    LET mapped == map_countries(dropna(df))
        exploded == dropna(explode(mapped))
        filtered == drop_pending(rename_countries(exploded))
        numeric == \A i \in 1..Len(filtered) : is_int_literal(filtered[i].year)
    IN [raised |-> ~numeric,
        argument |-> mapped,
        value |-> IF numeric
                  THEN [i \in 1..Len(filtered) |-> [filtered[i] EXCEPT !.year = int(@)]]
                  ELSE <<>>]

(***************************************************************************)
(* get_iso_code_from_country, add_iso_code_to_data                         *)
(***************************************************************************)
\* An excerpt of the ISO 3166-1 records pycountry.countries holds.
Countries ==
    {[name |-> Spain, alpha_3 |-> <<"E", "S", "P">>],
     [name |-> Portugal, alpha_3 |-> <<"P", "R", "T">>],
     [name |-> UnitedKingdom, alpha_3 |-> <<"G", "B", "R">>],
     [name |-> TaiwanProvinceOfChina, alpha_3 |-> <<"T", "W", "N">>]}

\* pycountry.countries.get(name=country), the name compared without regard to
\* case: the set holding the record of that name, or the empty set for None.
countries_get(country) == {c \in Countries : lower(c.name) = lower(country)}

\* The exceptions a lookup may end with, as values of the iso_code.
OSError == <<"OSError">>
KeyError == <<"KeyError">>
is_exception(v) == v \in {OSError, KeyError}

\* A lookup that lets the miss escape as an exception.
get_iso_code_raising(country, library_ok) ==
    IF ~library_ok THEN OSError
    ELSE LET info == countries_get(country)
         IN IF info = {} THEN KeyError ELSE (CHOOSE c \in info : TRUE).alpha_3

\* get_iso_code_from_country(country): the code, None on a miss (the
\* AttributeError of None.alpha_3 is caught), or the exception of a failing
\* library, logged and re-raised.
get_iso_code_from_country(country, library_ok) ==
    IF ~library_ok THEN OSError
    ELSE LET info == countries_get(country)
         IN IF info = {} THEN NaN ELSE (CHOOSE c \in info : TRUE).alpha_3

\* list.insert keeping a sorted list sorted, after the equal elements.
RECURSIVE insort(_, _)
insort(l, x) ==
    IF l = <<>> THEN <<x>>
    ELSE IF str_lt(x, Head(l)) THEN <<x>> \o l
    ELSE <<Head(l)>> \o insort(Tail(l), x)

\* sorted(l) for a list of strings.
RECURSIVE sorted(_)
sorted(l) == IF l = <<>> THEN <<>> ELSE insort(sorted(SubSeq(l, 1, Len(l) - 1)), l[Len(l)])

\* A frame that keeps the rows without a code.
add_iso_code_keeping(df, library_ok) ==
    LET coded == [i \in 1..Len(df) |->
                     [index |-> df[i].index, year |-> df[i].year,
                      country |-> df[i].country,
                      iso_code |-> get_iso_code_from_country(df[i].country, library_ok)]]
        unmatched == SelectSeq(coded, LAMBDA r : isnull(r.iso_code))
    IN [raised |-> IF \E i \in 1..Len(coded) : is_exception(coded[i].iso_code)
                   THEN coded[CHOOSE i \in 1..Len(coded) :
                                 /\ is_exception(coded[i].iso_code)
                                 /\ \A j \in 1..(i - 1) : ~is_exception(coded[j].iso_code)
                             ].iso_code[1]
                   ELSE "none",
        unmatched_countries_str |-> sorted([i \in 1..Len(unmatched) |-> unmatched[i].country]),
        value |-> coded]

\* add_iso_code_to_data(df): whether it raised, the list it logs and the frame
\* it returns.  The last dropna drops the rows whose iso_code is None: no row
\* that reaches it has another missing value.
add_iso_code_to_data(df, library_ok) ==
    LET coded == [i \in 1..Len(df) |->
                     [index |-> df[i].index, year |-> df[i].year,
                      country |-> df[i].country,
                      iso_code |-> get_iso_code_from_country(df[i].country, library_ok)]]
        unmatched == SelectSeq(coded, LAMBDA r : isnull(r.iso_code))
    IN [raised |-> IF \E i \in 1..Len(coded) : is_exception(coded[i].iso_code)
                   THEN coded[CHOOSE i \in 1..Len(coded) :
                                 /\ is_exception(coded[i].iso_code)
                                 /\ \A j \in 1..(i - 1) : ~is_exception(coded[j].iso_code)
                             ].iso_code[1]
                   ELSE "none",
        unmatched_countries_str |-> sorted([i \in 1..Len(unmatched) |-> unmatched[i].country]),
        value |-> SelectSeq(coded, LAMBDA r : ~isnull(r.iso_code))]

(***************************************************************************)
(* main                                                                    *)
(***************************************************************************)
ParserIdle ==
    /\ parts = <<>>
    /\ string_val = <<>>
    /\ cleaned_string_list = <<>>

Init ==
    /\ pc = "fetch"
    /\ ParserIdle
    /\ Idle

\* requests.get(url=...): a transport failure raises; any answer of the
\* server, whatever its status, is returned.
Fetch ==
    /\ pc = "fetch"
    /\ requests_made' = requests_made + 1
    /\ ran' = Append(ran, "fetch")
    /\ \/ /\ pc' = "aborted"
          /\ error' = "ConnectionError"
          /\ UNCHANGED response
       \/ /\ \E status \in StatusCodes, body \in Bodies :
                response' = [status_code |-> status, text |-> body]
          /\ pc' = "extract"
          /\ UNCHANGED error
    /\ UNCHANGED <<parts, string_val, cleaned_string_list, same_sex_df,
                   unmatched_countries_str, shown>>

\* BeautifulSoup(response.text), soup.find, pd.read_html, the two column names.
Extract ==
    /\ pc = "extract"
    /\ ran' = Append(ran, "extract")
    /\ IF response.text.wikitable /\ response.text.ncols = 2
       THEN /\ same_sex_df' = DataFrame(response.text.rows)
            /\ pc' = "clean"
            /\ UNCHANGED error
       ELSE /\ pc' = "aborted"
            /\ error' = "ValueError"
            /\ UNCHANGED same_sex_df
    /\ UNCHANGED <<parts, string_val, cleaned_string_list, response,
                   unmatched_countries_str, shown, requests_made>>

\* A cleaning step whose failure is logged and passed over.
CleanSwallowing ==
    /\ pc = "clean"
    /\ ran' = Append(ran, "clean")
    /\ LET call == clean_same_sex_marriage_data(same_sex_df)
       IN IF call.raised
          THEN /\ pc' = "resolve"
               /\ error' = "ValueError"
               /\ same_sex_df' = <<>>
          ELSE /\ pc' = "resolve"
               /\ same_sex_df' = call.value
               /\ UNCHANGED error
    /\ UNCHANGED <<parts, string_val, cleaned_string_list, response,
                   unmatched_countries_str, shown, requests_made>>

Clean ==
    /\ pc = "clean"
    /\ ran' = Append(ran, "clean")
    /\ LET call == clean_same_sex_marriage_data(same_sex_df)
       IN IF call.raised
          THEN /\ pc' = "aborted"
               /\ error' = "ValueError"
               /\ same_sex_df' = call.argument
          ELSE /\ pc' = "resolve"
               /\ same_sex_df' = call.value
               /\ UNCHANGED error
    /\ UNCHANGED <<parts, string_val, cleaned_string_list, response,
                   unmatched_countries_str, shown, requests_made>>

\* add_iso_code_to_data; the catalog may fail to load when it is first used.
AddIso ==
    /\ pc = "resolve"
    /\ ran' = Append(ran, "resolve")
    /\ \E library_ok \in BOOLEAN :
          LET call == add_iso_code_to_data(same_sex_df, library_ok)
          IN IF call.raised # "none"
             THEN /\ pc' = "aborted"
                  /\ error' = call.raised
                  /\ UNCHANGED <<same_sex_df, unmatched_countries_str>>
             ELSE /\ pc' = "render"
                  /\ same_sex_df' = call.value
                  /\ unmatched_countries_str' = call.unmatched_countries_str
                  /\ UNCHANGED error
    /\ UNCHANGED <<parts, string_val, cleaned_string_list, response, shown,
                   requests_made>>

\* plot_chloropleth: the figure is built from the frame and shown, or the
\* display fails.
Plot ==
    /\ pc = "render"
    /\ ran' = Append(ran, "render")
    /\ \/ /\ shown' = [displayed |-> TRUE, data |-> same_sex_df]
          /\ pc' = "done"
          /\ UNCHANGED error
       \/ /\ pc' = "aborted"
          /\ error' = "RenderError"
          /\ UNCHANGED shown
    /\ UNCHANGED <<parts, string_val, cleaned_string_list, response, same_sex_df,
                   unmatched_countries_str, requests_made>>

Next == Fetch \/ Extract \/ Clean \/ AddIso \/ Plot

Spec == Init /\ [][Next]_vars

(***************************************************************************)
(* The parser on its own: get_countries_from_string applied to an argument.*)
(***************************************************************************)
ParserInit ==
    /\ pc = "call"
    /\ parts \in ParserInputs
    /\ string_val = Flatten(parts)
    /\ cleaned_string_list = <<>>
    /\ Idle

Parse ==
    /\ pc = "call"
    /\ cleaned_string_list' = get_countries_from_string(string_val)
    /\ pc' = "returned"
    /\ UNCHANGED <<parts, string_val, response, same_sex_df, unmatched_countries_str,
                   shown, error, requests_made, ran>>

ParserNext == Parse

ParserSpec == ParserInit /\ [][ParserNext]_vars

\* C1: for an argument "A (x) B (y)" the parser returns exactly the two names, in
\* order, each with "[nationwide]" removed and surrounding whitespace trimmed;
\* "Spain[nationwide] (2005)" gives ["Spain"] and "" gives [].
C1_FormGivesBothNames ==
    /\ (pc = "returned" /\ IsForm(parts)) =>
          cleaned_string_list =
              << strip(replace(parts[1], Nationwide, <<>>)),
                 strip(replace(parts[6], Nationwide, <<>>)) >>
    /\ (pc = "returned" /\ string_val = Annotated(Spain \o Nationwide, Y2005)) =>
          cleaned_string_list = <<Spain>>
    /\ (pc = "returned" /\ string_val = <<>>) => cleaned_string_list = <<>>

C1_Witness ==
    /\ pc = "returned"
    /\ IsForm(parts)
    /\ parts[1] = Nationwide \o Spain
    /\ parts[6] = Spain \o Sp
    /\ cleaned_string_list = <<Spain, Spain>>

\* C2: every token the parser returns is non-empty after trimming.
C2_TokensNonEmpty ==
    pc = "returned" =>
        \A k \in 1..Len(cleaned_string_list) : strip(cleaned_string_list[k]) # <<>>

C2_Witness ==
    /\ pc = "returned"
    /\ string_val = Annotated(Nationwide, Y2005)
    /\ cleaned_string_list = <<<<>>>>

(***************************************************************************)
(* Properties of main().                                                   *)
(***************************************************************************)
\* The rows of the table the response held.
RawRows == response.text.rows

\* Positions of main(): the cleaner has been called; it has returned.
CleanCalled == Len(ran) >= 3
CleanReturned == pc \in {"resolve", "render", "done"} \/ (pc = "aborted" /\ Len(ran) > 3)

identity(c) == c

\* The expansion of the raw rows, written from the rows: for every row with
\* both fields present, one record per token, in the order of the rows and
\* of the tokens, carrying the row's position, its period as an integer and
\* the token as named by rename.
Expansion(rows, rename(_)) ==
    Flatten([i \in 1..Len(rows) |->
        IF isnull(rows[i].country) \/ isnull(rows[i].year) THEN <<>>
        ELSE LET tokens == get_countries_from_string(rows[i].country)
             IN [k \in 1..Len(tokens) |->
                    [index |-> i - 1, year |-> int(rows[i].year),
                     country |-> rename(tokens[k])]]])

NumericPeriods(rows) == \A i \in 1..Len(rows) : is_int_literal(rows[i].year)

\* C3 as stated: with numeric periods, the cleaner's output is one record per
\* extracted token, carrying the period as an integer and the token itself, in
\* the order of the rows and of the tokens.
C3_RecordsCarryTokens ==
    (pc = "resolve" /\ NumericPeriods(RawRows)) =>
        same_sex_df = Expansion(RawRows, identity)

\* C3 amended: with numeric periods, the cleaner's output is one record per
\* extracted token, carrying the period as an integer and the token after the
\* alias substitution, in the order of the rows and of the tokens.
C3_RecordsCarryRenamedTokens ==
    (pc = "resolve" /\ NumericPeriods(RawRows)) =>
        same_sex_df = Expansion(RawRows, replace_country)

C3_Witness ==
    /\ pc = "resolve"
    /\ RawRows = <<[year |-> Y2005, country |-> TwoKnown],
                   [year |-> Y12, country |-> Aliased]>>
    /\ same_sex_df = <<[index |-> 0, year |-> 2005, country |-> Spain],
                       [index |-> 0, year |-> 2005, country |-> Portugal],
                       [index |-> 1, year |-> 12, country |-> UnitedKingdom]>>

\* The frame the Pending filter is applied to.
BeforeFilter(rows) ==
    rename_countries(dropna(explode(map_countries(dropna(DataFrame(rows))))))

\* C4: no record of the cleaner's output stems from a raw row whose period is
\* "Pending"; the filter's result holds no such record, and filtering it again
\* changes nothing.
C4_PendingExcluded ==
    /\ CleanReturned =>
          \A i \in 1..Len(same_sex_df) : RawRows[same_sex_df[i].index + 1].year # Pending
    /\ CleanCalled =>
          LET once == drop_pending(BeforeFilter(RawRows))
          IN /\ \A i \in 1..Len(once) : once[i].year # Pending
             /\ drop_pending(once) = once

C4_Witness ==
    /\ pc = "resolve"
    /\ RawRows = <<[year |-> Pending, country |-> TwoUnknown],
                   [year |-> Y2005, country |-> TwoKnown]>>
    /\ Len(same_sex_df) = 2

\* A raw row leaves a record that the Pending filter keeps and whose period
\* is not numeric.
NonNumericRemains(rows) ==
    \E i \in 1..Len(rows) :
        /\ ~isnull(rows[i].year) /\ ~isnull(rows[i].country)
        /\ get_countries_from_string(rows[i].country) # <<>>
        /\ rows[i].year # Pending
        /\ ~is_int_literal(rows[i].year)

\* C5: when a record that remains after the Pending filter has a period that
\* is not numeric, the cleaner raises ValueError: main() ends there, returns
\* no frame, and neither the resolver nor the plot runs.
C5_NonNumericRaises ==
    (CleanCalled /\ NonNumericRemains(RawRows)) =>
        /\ pc = "aborted"
        /\ error = "ValueError"
        /\ ran = <<"fetch", "extract", "clean">>
        /\ ~shown.displayed
        /\ unmatched_countries_str = <<>>

C5_Witness ==
    /\ pc = "aborted"
    /\ error = "ValueError"
    /\ RawRows = <<[year |-> <<>>, country |-> TwoKnown],
                   [year |-> pending, country |-> TwoUnknown]>>

\* C6 as stated: every year of the cleaner's output has four digits.
C6_YearHasFourDigits ==
    pc = "resolve" =>
        \A i \in 1..Len(same_sex_df) :
            same_sex_df[i].year >= 1000 /\ same_sex_df[i].year <= 9999

\* The number a string of decimal digits denotes.
RECURSIVE Decimal(_)
Decimal(s) ==
    IF s = <<>> THEN 0
    ELSE 10 * Decimal(SubSeq(s, 1, Len(s) - 1))
            + (CHOOSE d \in 0..9 : Ascii09[d + 1] = s[Len(s)])

\* C6 amended: every year of the cleaner's output is an integer, the number
\* its raw row's period denotes; it has four digits only if the period has.
C6_YearIsThePeriod ==
    pc = "resolve" =>
        \A i \in 1..Len(same_sex_df) :
            LET period == RawRows[same_sex_df[i].index + 1].year
            IN /\ same_sex_df[i].year \in Int
               /\ (\A k \in 1..Len(period) : period[k] \in Digits) =>
                     same_sex_df[i].year = Decimal(period)

C6_Witness ==
    /\ pc = "resolve"
    /\ \E i \in 1..Len(same_sex_df) : same_sex_df[i].year = 12
    /\ \E i \in 1..Len(same_sex_df) : same_sex_df[i].year = 2005

\* The catalog holds the name.
Resolves(country) == \E c \in Countries : lower(c.name) = lower(country)

WithoutCode(df) ==
    [i \in 1..Len(df) |->
        [index |-> df[i].index, year |-> df[i].year, country |-> df[i].country]]

\* The frame the cleaner returns for the raw rows.
Cleaned(rows) == clean_same_sex_marriage_data(DataFrame(rows)).value

\* C7: a name the catalog misses does not end main(): the resolver ends only
\* with the exception of a failing library.  The frame it returns holds no row
\* without a code, and holds every cleaned row whose name resolves, in order.
C7_MissesAreDropped ==
    /\ (pc = "aborted" /\ Len(ran) = 4) => error = "OSError"
    /\ pc = "render" =>
          /\ \A i \in 1..Len(same_sex_df) : ~isnull(same_sex_df[i].iso_code)
          /\ WithoutCode(same_sex_df) =
                SelectSeq(Cleaned(RawRows), LAMBDA r : Resolves(r.country))

C7_Witness ==
    /\ pc = "render"
    /\ RawRows = <<[year |-> Y2005, country |-> TwoUnknown],
                   [year |-> Y2005, country |-> TwoKnown]>>
    /\ same_sex_df = <<[index |-> 1, year |-> 2005, country |-> Spain,
                        iso_code |-> <<"E", "S", "P">>],
                       [index |-> 1, year |-> 2005, country |-> Portugal,
                        iso_code |-> <<"P", "R", "T">>]>>

Ascending(l) == \A i \in 1..Len(l) : \A j \in (i + 1)..Len(l) : ~str_lt(l[j], l[i])
Count(l, x) == Cardinality({i \in 1..Len(l) : l[i] = x})
Misses(rows) == SelectSeq(Cleaned(rows), LAMBDA r : ~Resolves(r.country))

\* C8 as stated: the list of unmatched names is ascending and holds each
\* unresolved name once.
C8_SortedDeduplicated ==
    pc = "render" =>
        /\ Ascending(unmatched_countries_str)
        /\ \A i \in 1..Len(unmatched_countries_str) :
              Count(unmatched_countries_str, unmatched_countries_str[i]) = 1

\* What the code does for C8: the list of unmatched names is ascending and
\* holds each unresolved name once for every cleaned record that carries it.
C8_SortedNotDeduplicated ==
    pc = "render" =>
        LET misses == Misses(RawRows)
            names == [k \in 1..Len(misses) |-> misses[k].country]
        IN /\ Ascending(unmatched_countries_str)
           /\ Len(unmatched_countries_str) = Len(names)
           /\ \A i \in 1..Len(names) :
                 Count(unmatched_countries_str, names[i]) = Count(names, names[i])

C8_Witness ==
    /\ pc = "render"
    /\ RawRows = <<[year |-> Y2005, country |-> TwoUnknown],
                   [year |-> Y12, country |-> TwoUnknown]>>
    /\ unmatched_countries_str = <<Hawaii, Hawaii, Scotland, Scotland>>

StageOrder == <<"fetch", "extract", "clean", "resolve", "render">>

\* C9: the stages run at most once each, in the order fetch, extract, clean,
\* resolve, render; a figure is shown only after all five ran without an
\* exception; an exception ends main() with nothing shown; one request is made
\* at most.
C9_StagesInOrder ==
    /\ Len(ran) <= Len(StageOrder) /\ ran = SubSeq(StageOrder, 1, Len(ran))
    /\ shown.displayed => (ran = StageOrder /\ error = "none" /\ pc = "done")
    /\ error # "none" => (pc = "aborted" /\ ~shown.displayed)
    /\ pc = "aborted" => error # "none"
    /\ requests_made <= 1

C9_Witness ==
    /\ pc = "aborted"
    /\ ran = <<"fetch", "extract", "clean">>
    /\ error = "ValueError"
    /\ ~shown.displayed
    /\ requests_made = 1

\* C10: an answer whose status is not 2xx makes the fetch fail with a network
\* error: main() ends there, the extractor is not given the body and no second
\* request is made.
C10_BadStatusAborts ==
    (response # NoResponse /\ ~(response.status_code \in 200..299)) =>
        /\ pc = "aborted"
        /\ error = "ConnectionError"
        /\ ran = <<"fetch">>
        /\ requests_made = 1

C10_Witness ==
    /\ pc = "clean"
    /\ response.status_code = 404
    /\ ran = <<"fetch", "extract">>
    /\ error = "none"

====
